---- MODULE Spec2Model ----
(***************************************************************************)
(* Model of the NFC attendance API of src/server.js: the Express request   *)
(* handlers for init-db, add-student and verify-attendance, the shared pg  *)
(* connection pool they run on, and the PostgreSQL tables behind it.       *)
(*                                                                         *)
(* The database is modelled at READ COMMITTED, PostgreSQL's default: a     *)
(* statement sees the committed rows plus the uncommitted rows of its own  *)
(* transaction; an INSERT of a unique key that another open transaction    *)
(* has inserted waits until that transaction ends; an error inside a       *)
(* transaction block aborts it, and every later statement on that          *)
(* connection fails until ROLLBACK.  SERIAL counters are not transactional.*)
(* A handler runs from one await to the next in one step.                  *)
(***************************************************************************)
EXTENDS Integers, Sequences, FiniteSets, TLC

\* ------------------------------------------------------------------ bounds
MaxReq == 3        \* requests issued in one behaviour
MaxConc == 2       \* requests in flight at once
NClients == 2      \* connections the pool may hold
MaxTags == 2       \* longest rfid_tags array sent

Clients == 1..NClients
Reqs == 1..MaxConc   \* the handlers that can be running

\* --------------------------------------------------------------- constants
DefaultClassroom == 1
\* unnest(ARRAY['CS-A', 'CS-B', 'EE-A', 'EE-B', 'ME-A', 'ME-B'])
SeedSeq == <<"CS-A", "CS-B", "EE-A", "EE-B", "ME-A", "ME-B">>
DefaultRoom == "Default Room"
NULL == "NULL"

ErrInvalidTags == "Invalid RFID tags array"
ErrVerify == "Failed to verify attendance"
ErrMissing == "Missing required fields: name, rfid_tag, section, id_number"
ErrTagExists == "RFID tag already exists"
ErrIdExists == "ID number already exists"
ErrDuplicate == "Duplicate RFID tag or ID number"
ErrAdd == "Failed to add student"
ErrInit == "Failed to initialize database"

\* ------------------------------------------------------------------ inputs
\* A request body; "" stands for a field that is missing or empty (falsy).
NoTags == [type |-> "undefined", items |-> << >>]
NoBody == [name |-> "", rfid_tag |-> "", section |-> "", id_number |-> "",
           rfid_tags |-> NoTags, classroom_id |-> 0]

AddBody(n, t, s, i) == [NoBody EXCEPT !.name = n, !.rfid_tag = t, !.section = s, !.id_number = i]

AddBodies ==
    { AddBody("Alice", "T1", "CS-A", "S1"), AddBody("Alice", "T1", "X1", "S2"),
      AddBody("Alice", "T2", "X1", "S1"),
      AddBody("", "T1", "X1", "S1"),        AddBody("Alice", "T2", "X1", "") }

TagSeqs == UNION { [1..n -> {"T1", "T2"}] : n \in 0..MaxTags }

\* classroom_id 0 stands for an omitted classroom_id; 2 is a room nobody seeded
VerifyBodies ==
    { [NoBody EXCEPT !.rfid_tags = [type |-> "array", items |-> ts]] : ts \in TagSeqs }
    \cup { [NoBody EXCEPT !.rfid_tags = [type |-> "array", items |-> <<"T1">>], !.classroom_id = 2] }
    \cup { [NoBody EXCEPT !.rfid_tags = [type |-> ty, items |-> << >>]] : ty \in {"undefined", "string"} }

\* ------------------------------------------------------------------- state
VARIABLES
    db,       \* committed rows of every table
    client,   \* the pool's connections: owner, transaction state, uncommitted rows
    serial,   \* the SERIAL sequences
    req,      \* the handlers: request body, position, locals, response
    nreq      \* requests issued so far

vars == <<db, client, serial, req, nreq>>

Tables == {"persons", "sections", "student_sections", "classrooms", "attendance"}
NoRows == [t \in Tables |-> {}]

\* dupTag, dupId and touched record facts about the request for the properties
\* below: whether its tag or id_number was already committed when it arrived,
\* and whether it has asked the pool for anything
NoReq == [id |-> 0, kind |-> "none", body |-> NoBody, pc |-> "idle", client |-> 0,
          status |-> 0, error |-> "", code |-> "", touched |-> FALSE,
          dupTag |-> FALSE, dupId |-> FALSE,
          sectionId |-> 0, newSection |-> 0, personId |-> 0,
          verifiedStudents |-> << >>, pending |-> {}, unrecognizedTags |-> << >>,
          total_scans |-> 0]

\* The database outlives the server process.  It holds the schema and either
\* nothing else, or what an earlier init-db seeded, or that and one student.
SeedRows ==
    [NoRows EXCEPT !.classrooms = { [classroom_id |-> DefaultClassroom, room_number |-> DefaultRoom] },
                   !.sections = { [section_id |-> i, section_name |-> SeedSeq[i]] : i \in 1..Len(SeedSeq) }]

EnrolledRows ==
    [SeedRows EXCEPT !.persons = { [person_id |-> 1, name |-> "Alice", rfid_tag |-> "T1",
                                     role |-> "student", id_number |-> "S1"] },
                     !.student_sections = { [person_id |-> 1, section_id |-> 1] }]

Init ==
    /\ db \in {NoRows, SeedRows, EnrolledRows}
    /\ serial = [persons |-> Cardinality(db.persons) + 1, sections |-> Cardinality(db.sections) + 1,
                 classrooms |-> Cardinality(db.classrooms) + 1, attendance |-> 1]
    /\ client = [c \in Clients |-> [owner |-> 0, tx |-> "none", w |-> NoRows]]
    /\ req = [r \in Reqs |-> NoReq]
    /\ nreq = 0

\* ----------------------------------------------------------- the database
Range(s) == { s[i] : i \in 1..Len(s) }

\* What a statement run on connection c sees.
Visible(c) == [t \in Tables |-> db[t] \cup client[c].w[t]]

\* An INSERT on connection c waits while another open transaction holds an
\* uncommitted row with the same unique key.
Blocked(c, t, key, val) ==
    \E d \in Clients \ {c} : \E x \in client[d].w[t] : x[key] = val

\* UNIQUE (rfid_tag), UNIQUE (id_number) on persons
PersonsConflict(rows, p) ==
    \E x \in rows : x.rfid_tag = p.rfid_tag \/ x.id_number = p.id_number

\* (mutant: section_name carries no UNIQUE constraint)
SectionsConflictNever(rows, s) == FALSE

\* UNIQUE (section_name) on sections
SectionsConflict(rows, s) ==
    \E x \in rows : x.section_name = s.section_name

\* (mutant: COMMIT loses the student_sections rows of the transaction)
CommittedNoLinks(d, w) == [t \in Tables |-> IF t = "student_sections" THEN d[t] ELSE d[t] \cup w[t]]

\* COMMIT publishes the transaction's rows
Committed(d, w) == [t \in Tables |-> d[t] \cup w[t]]

\* client.release(): the connection goes back to the pool as it is
Release(cl) == [cl EXCEPT !.owner = 0]

Idle(c) == client[c].owner = 0

\* An error inside a transaction block aborts it: its rows are dead and the
\* block stays open in the failed state.  Outside a block nothing remains.
Failed(cl) == [cl EXCEPT !.w = NoRows, !.tx = IF cl.tx = "none" THEN "none" ELSE "aborted"]

\* ------------------------------------------------------------ new requests
\* A response stays in req for one state and is then forgotten: no step of
\* the program reads it, so nothing else is taken while one is there.
Quiet == \A r \in Reqs : req[r].pc \notin {"done", "crashed"}

\* the attendance INSERTs still running after a 500 outlive the handler
Forget(r) ==
    /\ req[r].pc \in {"done", "crashed"}
    /\ req' = [req EXCEPT ![r] = IF req[r].pending = {} THEN NoReq
                                 ELSE [req[r] EXCEPT !.pc = "detached", !.status = 0, !.error = ""]]
    /\ UNCHANGED <<db, client, serial, nreq>>

Free(r) == req[r].pc = "idle"

Start(kind, b) ==
    /\ Quiet
    /\ nreq < MaxReq
    /\ nreq' = nreq + 1
    /\ \E r \in Reqs :
        /\ Free(r) /\ \A q \in 1..(r - 1) : ~Free(q)
        /\ req' = [req EXCEPT ![r] = [NoReq EXCEPT !.id = nreq + 1, !.kind = kind,
                                        !.body = b, !.pc = "start",
                                        !.dupTag = \E p \in db.persons : p.rfid_tag = b.rfid_tag,
                                        !.dupId = \E p \in db.persons : p.id_number = b.id_number]]
    /\ UNCHANGED <<db, client, serial>>

StartAdd == \E b \in AddBodies : Start("add", b)
StartVerify == \E b \in VerifyBodies : Start("verify", b)
StartInit == Start("init", NoBody)

Respond(rq, st, err) == [rq EXCEPT !.status = st, !.error = err, !.pc = "done", !.client = 0]

\* --------------------------------------------------- POST /api/add-student
Missing(b) == b.name = "" \/ b.rfid_tag = "" \/ b.section = "" \/ b.id_number = ""

\* SELECT person_id FROM persons WHERE rfid_tag = $1
ExistingTag(rows, tag) == { p \in rows : p.rfid_tag = tag }

\* SELECT person_id FROM persons WHERE id_number = $1
ExistingId(rows, id) == { p \in rows : p.id_number = id }

\* SELECT section_id FROM sections WHERE section_name = $1
SectionResult(rows, name) == { s \in rows : s.section_name = name }

\* const client = await pool.connect()
AddConnect(r) ==
    /\ req[r].kind = "add" /\ req[r].pc = "start"
    /\ \E c \in Clients :
        /\ Idle(c)
        /\ client' = [client EXCEPT ![c].owner = r]
        /\ req' = [req EXCEPT ![r].pc = "begin", ![r].client = c, ![r].touched = TRUE]
    /\ UNCHANGED <<db, serial, nreq>>

\* await client.query('BEGIN'), then the validation of the body
AddBegin(r) ==
    /\ req[r].kind = "add" /\ req[r].pc = "begin"
    /\ LET c == req[r].client IN
        IF client[c].tx = "aborted"
        THEN /\ req' = [req EXCEPT ![r].pc = "rollback", ![r].code = "25P02"]
             /\ client' = client
        ELSE IF Missing(req[r].body)
        THEN /\ req' = [req EXCEPT ![r] = Respond(@, 400, ErrMissing)]
             /\ client' = [client EXCEPT ![c] = Release([@ EXCEPT !.tx = "open"])]
        ELSE /\ req' = [req EXCEPT ![r].pc = "checkTag"]
             /\ client' = [client EXCEPT ![c].tx = "open"]
    /\ UNCHANGED <<db, serial, nreq>>

\* Check if RFID tag already exists
AddCheckTag(r) ==
    /\ req[r].kind = "add" /\ req[r].pc = "checkTag"
    /\ LET c == req[r].client
           existingTag == ExistingTag(Visible(c).persons, req[r].body.rfid_tag) IN
        IF existingTag # {}
        THEN /\ req' = [req EXCEPT ![r] = Respond(@, 400, ErrTagExists)]
             /\ client' = [client EXCEPT ![c] = Release(@)]
        ELSE /\ req' = [req EXCEPT ![r].pc = "checkId"]
             /\ client' = client
    /\ UNCHANGED <<db, serial, nreq>>

\* Check if ID number already exists
AddCheckId(r) ==
    /\ req[r].kind = "add" /\ req[r].pc = "checkId"
    /\ LET c == req[r].client
           existingId == ExistingId(Visible(c).persons, req[r].body.id_number) IN
        IF existingId # {}
        THEN /\ req' = [req EXCEPT ![r] = Respond(@, 400, ErrIdExists)]
             /\ client' = [client EXCEPT ![c] = Release(@)]
        ELSE /\ req' = [req EXCEPT ![r].pc = "getSection"]
             /\ client' = client
    /\ UNCHANGED <<db, serial, nreq>>

\* Get or create section: the SELECT
AddGetSection(r) ==
    /\ req[r].kind = "add" /\ req[r].pc = "getSection"
    /\ LET c == req[r].client
           sectionResult == SectionResult(Visible(c).sections, req[r].body.section) IN
        IF sectionResult = {}
        THEN req' = [req EXCEPT ![r].pc = "insSection"]
        ELSE \E s \in sectionResult :
                req' = [req EXCEPT ![r].pc = "insPerson", ![r].sectionId = s.section_id]
    /\ UNCHANGED <<db, client, serial, nreq>>

\* A statement of the transaction fails with SQLSTATE code: control goes to catch
AddThrow(r, code) ==
    /\ req' = [req EXCEPT ![r].pc = "rollback", ![r].code = code]
    /\ client' = [client EXCEPT ![req[r].client] = Failed(@)]

\* Get or create section: INSERT INTO sections ... RETURNING section_id
AddInsertSection(r) ==
    /\ req[r].kind = "add" /\ req[r].pc = "insSection"
    /\ LET c == req[r].client
           row == [section_id |-> serial.sections, section_name |-> req[r].body.section] IN
        /\ ~Blocked(c, "sections", "section_name", row.section_name)
        /\ serial' = [serial EXCEPT !.sections = @ + 1]
        /\ IF SectionsConflict(Visible(c).sections, row)
           THEN AddThrow(r, "23505")
           ELSE /\ client' = [client EXCEPT ![c].w.sections = @ \cup {row}]
                /\ req' = [req EXCEPT ![r].pc = "insPerson", ![r].sectionId = row.section_id,
                                      ![r].newSection = row.section_id]
    /\ UNCHANGED <<db, nreq>>

\* INSERT INTO persons ... RETURNING person_id
AddInsertPerson(r) ==
    /\ req[r].kind = "add" /\ req[r].pc = "insPerson"
    /\ LET c == req[r].client
           b == req[r].body
           row == [person_id |-> serial.persons, name |-> b.name, rfid_tag |-> b.rfid_tag,
                   role |-> "student", id_number |-> b.id_number] IN
        /\ ~Blocked(c, "persons", "rfid_tag", row.rfid_tag)
        /\ ~Blocked(c, "persons", "id_number", row.id_number)
        /\ serial' = [serial EXCEPT !.persons = @ + 1]
        /\ IF PersonsConflict(Visible(c).persons, row)
           THEN AddThrow(r, "23505")
           ELSE /\ client' = [client EXCEPT ![c].w.persons = @ \cup {row}]
                /\ req' = [req EXCEPT ![r].pc = "insLink", ![r].personId = row.person_id]
    /\ UNCHANGED <<db, nreq>>

\* INSERT INTO student_sections (person_id, section_id)
AddInsertLink(r) ==
    /\ req[r].kind = "add" /\ req[r].pc = "insLink"
    /\ LET c == req[r].client
           row == [person_id |-> req[r].personId, section_id |-> req[r].sectionId] IN
        /\ client' = [client EXCEPT ![c].w.student_sections = @ \cup {row}]
        /\ req' = [req EXCEPT ![r].pc = "commit"]
    /\ UNCHANGED <<db, serial, nreq>>

\* a connection with no transaction and no uncommitted rows
Clean == [owner |-> 0, tx |-> "none", w |-> NoRows]

\* await client.query('COMMIT'); res.json({success: true, ...}); finally release
AddCommit(r) ==
    /\ req[r].kind = "add" /\ req[r].pc = "commit"
    /\ LET c == req[r].client IN
        /\ db' = Committed(db, client[c].w)
        /\ client' = [client EXCEPT ![c] = Clean]
        /\ req' = [req EXCEPT ![r] = Respond(@, 200, "")]
    /\ UNCHANGED <<serial, nreq>>

\* catch: ROLLBACK, then 400 for a unique violation and 500 otherwise; finally release
AddRollback(r) ==
    /\ req[r].kind = "add" /\ req[r].pc = "rollback"
    /\ LET c == req[r].client IN
        /\ client' = [client EXCEPT ![c] = Clean]
        /\ req' = [req EXCEPT ![r] = IF @.code = "23505" THEN Respond(@, 400, ErrDuplicate)
                                                          ELSE Respond(@, 500, ErrAdd)]
    /\ UNCHANGED <<db, serial, nreq>>

\* ------------------------------------------------ POST /api/verify-attendance
\* const { rfid_tags, classroom_id = 1 } = req.body
ClassroomId(b) == IF b.classroom_id = 0 THEN DefaultClassroom ELSE b.classroom_id

\* (mutant: the join to sections loses its ON condition)
JoinedSectionsCross(vis, p) ==
    IF vis.sections = {} THEN {NULL} ELSE { x.section_name : x \in vis.sections }

\* persons p LEFT JOIN student_sections ss LEFT JOIN sections s: the section
\* names joined to person p, NULL where the join finds none
JoinedSections(vis, p) ==
    LET ss == { l \in vis.student_sections : l.person_id = p.person_id } IN
    IF ss = {} THEN {NULL}
    ELSE UNION { LET s == { x \in vis.sections : x.section_id = l.section_id } IN
                 IF s = {} THEN {NULL} ELSE { x.section_name : x \in s } : l \in ss }

\* SELECT ... WHERE p.rfid_tag = ANY($1) AND p.role = 'student'
VerifiedRows(vis, tags) ==
    UNION { { [person_id |-> p.person_id, name |-> p.name, rfid_tag |-> p.rfid_tag,
               id_number |-> p.id_number, section_name |-> n] : n \in JoinedSections(vis, p) } :
            p \in { x \in vis.persons : x.rfid_tag \in Range(tags) /\ x.role = "student" } }

\* the rows of a result set come in an order the query does not fix
Orders(S) == { f \in [1..Cardinality(S) -> S] : \A i, j \in 1..Cardinality(S) : f[i] = f[j] => i = j }

\* verifiedStudents.map(student => student.rfid_tag)
FoundTags(rows) == { rows[i].rfid_tag : i \in 1..Len(rows) }

\* (mutant: the filter keeps the tags that were found)
UnrecognizedTagsInverted(tags, foundTags) == SelectSeq(tags, LAMBDA tag : tag \in foundTags)

\* rfid_tags.filter(tag => !foundTags.includes(tag))
UnrecognizedTags(tags, foundTags) == SelectSeq(tags, LAMBDA tag : tag \notin foundTags)

\* the validation of the body, before any await
VerifyStart(r) ==
    /\ req[r].kind = "verify" /\ req[r].pc = "start"
    /\ req' = [req EXCEPT ![r] = IF @.body.rfid_tags.type # "array"
                                 THEN Respond(@, 400, ErrInvalidTags)
                                 ELSE [@ EXCEPT !.pc = "query"]]
    /\ UNCHANGED <<db, client, serial, nreq>>

\* const result = await pool.query(query, [rfid_tags]), on any idle connection,
\* then foundTags, unrecognizedTags and the attendancePromises
VerifyQuery(r) ==
    /\ req[r].kind = "verify" /\ req[r].pc = "query"
    /\ \E c \in Clients :
        /\ Idle(c)
        /\ IF client[c].tx = "aborted"
           THEN req' = [req EXCEPT ![r] = Respond([@ EXCEPT !.touched = TRUE], 500, ErrVerify)]
           ELSE \E rows \in Orders(VerifiedRows(Visible(c), req[r].body.rfid_tags.items)) :
                  req' = [req EXCEPT ![r].pc = "insert", ![r].touched = TRUE,
                            ![r].verifiedStudents = rows,
                            ![r].unrecognizedTags =
                                UnrecognizedTags(req[r].body.rfid_tags.items, FoundTags(rows)),
                            ![r].pending = 1..Len(rows)]
    /\ UNCHANGED <<db, client, serial, nreq>>

\* catch of the handler: the first rejection answers 500, later ones are dropped
VerifyCatch(rq) ==
    IF rq.pc = "insert" THEN Respond(rq, 500, ErrVerify)
    ELSE IF rq.pending = {} THEN NoReq ELSE rq

\* an INSERT resolves: nothing happens until all of them have
VerifyThen(rq) == IF rq.pc = "detached" /\ rq.pending = {} THEN NoReq ELSE rq

\* one of the attendancePromises: INSERT INTO attendance ... on any idle
\* connection; the inserts still pending after a rejection go on running
VerifyInsert(r) ==
    /\ req[r].kind = "verify" /\ req[r].pc \in {"insert", "detached"}
    /\ \E i \in req[r].pending, c \in Clients :
        LET student == req[r].verifiedStudents[i]
            row == [attendance_id |-> serial.attendance, person_id |-> student.person_id,
                    classroom_id |-> ClassroomId(req[r].body), req |-> req[r].id]
            vis == Visible(c)
            rest == [req[r] EXCEPT !.pending = @ \ {i}] IN
        /\ Idle(c)
        /\ IF client[c].tx = "aborted"
           THEN /\ req' = [req EXCEPT ![r] = VerifyCatch(rest)]
                /\ UNCHANGED <<db, client, serial>>
           ELSE /\ serial' = [serial EXCEPT !.attendance = @ + 1]
                /\ IF /\ \E p \in vis.persons : p.person_id = row.person_id
                      /\ \E k \in vis.classrooms : k.classroom_id = row.classroom_id
                   THEN /\ req' = [req EXCEPT ![r] = VerifyThen(rest)]
                        /\ IF client[c].tx = "none"
                           THEN /\ db' = [db EXCEPT !.attendance = @ \cup {row}]
                                /\ client' = client
                           ELSE /\ client' = [client EXCEPT ![c].w.attendance = @ \cup {row}]
                                /\ db' = db
                   ELSE /\ req' = [req EXCEPT ![r] = VerifyCatch(rest)]
                        /\ client' = [client EXCEPT ![c] = Failed(@)]
                        /\ db' = db
    /\ UNCHANGED nreq

\* await Promise.all(attendancePromises) resolves: res.json({success: true, ...})
VerifyRespond(r) ==
    /\ req[r].kind = "verify" /\ req[r].pc = "insert" /\ req[r].pending = {}
    /\ req' = [req EXCEPT ![r] = Respond([@ EXCEPT !.total_scans = Len(req[r].body.rfid_tags.items)], 200, "")]
    /\ UNCHANGED <<db, client, serial, nreq>>

\* ------------------------------------------------------- POST /api/init-db
\* await pool.query(createTablesSQL) on any idle connection.  The statements
\* run in the connection's open transaction block if it has one, else in one
\* implicit transaction that commits when the last statement is done.  The
\* tables exist, so each CREATE TABLE IF NOT EXISTS changes nothing.
InitQuery(r) ==
    /\ req[r].kind = "init" /\ req[r].pc = "start"
    /\ \E c \in Clients :
        /\ Idle(c)
        /\ IF client[c].tx = "aborted"
           THEN /\ req' = [req EXCEPT ![r] = Respond([@ EXCEPT !.touched = TRUE], 500, ErrInit)]
                /\ client' = client
           ELSE /\ req' = [req EXCEPT ![r].pc = "room", ![r].client = c, ![r].touched = TRUE]
                /\ client' = [client EXCEPT ![c].owner = r,
                                ![c].tx = IF @ = "none" THEN "implicit" ELSE @]
    /\ UNCHANGED <<db, serial, nreq>>

\* the query ends: an implicit transaction commits, a transaction block stays open
InitDone(c) ==
    IF client[c].tx = "implicit"
    THEN /\ db' = Committed(db, client[c].w)
         /\ client' = [client EXCEPT ![c] = Clean]
    ELSE /\ db' = db
         /\ client' = [client EXCEPT ![c] = Release(@)]

\* a statement of the query fails: the implicit transaction is rolled back, a
\* transaction block is left aborted; catch answers 500
InitThrow(r) ==
    /\ req' = [req EXCEPT ![r] = Respond(@, 500, ErrInit)]
    /\ client' = [client EXCEPT ![req[r].client] =
                    IF @.tx = "implicit" THEN Clean ELSE Release(Failed(@))]
    /\ db' = db

\* INSERT INTO classrooms ... WHERE NOT EXISTS (...): the condition is read
InitRoomExists(r) ==
    /\ req[r].kind = "init" /\ req[r].pc = "room"
    /\ req' = [req EXCEPT ![r].pc =
                IF \E k \in Visible(req[r].client).classrooms : k.room_number = DefaultRoom
                THEN "sections" ELSE "insRoom"]
    /\ UNCHANGED <<db, client, serial, nreq>>

\* INSERT INTO classrooms: the row is inserted
InitRoomInsert(r) ==
    /\ req[r].kind = "init" /\ req[r].pc = "insRoom"
    /\ LET c == req[r].client
           row == [classroom_id |-> serial.classrooms, room_number |-> DefaultRoom] IN
        /\ ~Blocked(c, "classrooms", "room_number", DefaultRoom)
        /\ serial' = [serial EXCEPT !.classrooms = @ + 1]
        /\ IF \E k \in Visible(c).classrooms : k.room_number = DefaultRoom
           THEN InitThrow(r)
           ELSE /\ req' = [req EXCEPT ![r].pc = "sections"]
                /\ client' = [client EXCEPT ![c].w.classrooms = @ \cup {row}]
                /\ db' = db
    /\ UNCHANGED nreq

\* INSERT INTO sections ... WHERE NOT EXISTS (SELECT 1 FROM sections LIMIT 1):
\* the condition is read; with a section present the query is done
InitSectionsExist(r) ==
    /\ req[r].kind = "init" /\ req[r].pc = "sections"
    /\ IF Visible(req[r].client).sections # {}
       THEN /\ req' = [req EXCEPT ![r] = Respond(@, 200, "")]
            /\ InitDone(req[r].client)
       ELSE /\ req' = [req EXCEPT ![r].pc = "insSections"]
            /\ UNCHANGED <<db, client>>
    /\ UNCHANGED <<serial, nreq>>

\* INSERT INTO sections: the six rows are inserted and the query is done
InitSectionsInsert(r) ==
    /\ req[r].kind = "init" /\ req[r].pc = "insSections"
    /\ LET c == req[r].client
           rows == { [section_id |-> serial.sections + i - 1, section_name |-> SeedSeq[i]] :
                        i \in 1..Len(SeedSeq) } IN
        /\ \A s \in rows : ~Blocked(c, "sections", "section_name", s.section_name)
        /\ serial' = [serial EXCEPT !.sections = @ + Len(SeedSeq)]
        /\ IF \E s \in rows : SectionsConflict(Visible(c).sections, s)
           THEN InitThrow(r)
           ELSE /\ req' = [req EXCEPT ![r] = Respond(@, 200, "")]
                /\ IF client[c].tx = "implicit"
                   THEN /\ db' = Committed(db, [client[c].w EXCEPT !.sections = @ \cup rows])
                        /\ client' = [client EXCEPT ![c] = Clean]
                   ELSE /\ db' = db
                        /\ client' = [client EXCEPT ![c] = Release([@ EXCEPT !.w.sections = @ \cup rows])]
    /\ UNCHANGED nreq

\* --------------------------------------------------------------- the pool
\* new Pool({...}) sets no idleTimeoutMillis: pg closes a connection that has
\* been idle for the default 10 s and the server drops its open transaction.
IdleTimeout(c) ==
    /\ Idle(c) /\ client[c].tx # "none"
    /\ client' = [client EXCEPT ![c] = Clean]
    /\ UNCHANGED <<db, serial, req, nreq>>

\* ---------------------------------------------------------- storage faults
\* The storage operations can fail for reasons outside the program (the server
\* is unreachable, a statement is cancelled, the connection drops), any number
\* of times.

\* pool.connect() rejects: the await is outside try, the handler's promise
\* rejects and nothing answers the request
AddConnectFail(r) ==
    /\ req[r].kind = "add" /\ req[r].pc = "start"
    /\ req' = [req EXCEPT ![r].pc = "crashed", ![r].touched = TRUE]
    /\ UNCHANGED <<db, client, serial, nreq>>

\* BEGIN or a query of the transaction rejects: control goes to catch.  A
\* COMMIT that rejects may or may not have taken effect.
AddQueryFail(r) ==
    /\ req[r].kind = "add"
    /\ req[r].pc \in {"begin", "checkTag", "checkId", "getSection", "insSection",
                      "insPerson", "insLink", "commit"}
    /\ LET c == req[r].client IN
        \/ /\ AddThrow(r, "other")
           /\ db' = db
        \/ /\ req[r].pc = "commit"
           /\ db' = Committed(db, client[c].w)
           /\ client' = [client EXCEPT ![c] = [Clean EXCEPT !.owner = r]]
           /\ req' = [req EXCEPT ![r].pc = "rollback", ![r].code = "other"]
    /\ UNCHANGED <<serial, nreq>>

\* the ROLLBACK in catch rejects (the connection is gone, the server drops the
\* transaction): the error leaves catch, finally releases the client, the
\* handler's promise rejects and nothing answers the request
AddRollbackFail(r) ==
    /\ req[r].kind = "add" /\ req[r].pc = "rollback"
    /\ client' = [client EXCEPT ![req[r].client] = Clean]
    /\ req' = [req EXCEPT ![r].pc = "crashed", ![r].client = 0]
    /\ UNCHANGED <<db, serial, nreq>>

\* the SELECT of verify-attendance rejects: catch answers 500
VerifyQueryFail(r) ==
    /\ req[r].kind = "verify" /\ req[r].pc = "query"
    /\ req' = [req EXCEPT ![r] = Respond([@ EXCEPT !.touched = TRUE], 500, ErrVerify)]
    /\ UNCHANGED <<db, client, serial, nreq>>

\* one of the attendance INSERTs rejects
VerifyInsertFail(r) ==
    /\ req[r].kind = "verify" /\ req[r].pc \in {"insert", "detached"}
    /\ \E i \in req[r].pending :
        req' = [req EXCEPT ![r] = VerifyCatch([@ EXCEPT !.pending = @ \ {i}])]
    /\ UNCHANGED <<db, client, serial, nreq>>

\* the query of init-db rejects: catch answers 500
InitQueryFail(r) ==
    /\ req[r].kind = "init" /\ req[r].pc \in {"room", "insRoom", "sections", "insSections"}
    /\ InitThrow(r)
    /\ UNCHANGED <<serial, nreq>>

\* ------------------------------------------------------ the specifications
AddConnectStep == Quiet /\ \E r \in Reqs : AddConnect(r)
AddBeginStep == Quiet /\ \E r \in Reqs : AddBegin(r)
AddCheckTagStep == Quiet /\ \E r \in Reqs : AddCheckTag(r)
AddCheckIdStep == Quiet /\ \E r \in Reqs : AddCheckId(r)
AddGetSectionStep == Quiet /\ \E r \in Reqs : AddGetSection(r)
AddInsertSectionStep == Quiet /\ \E r \in Reqs : AddInsertSection(r)
AddInsertPersonStep == Quiet /\ \E r \in Reqs : AddInsertPerson(r)
AddInsertLinkStep == Quiet /\ \E r \in Reqs : AddInsertLink(r)
AddCommitStep == Quiet /\ \E r \in Reqs : AddCommit(r)
AddRollbackStep == Quiet /\ \E r \in Reqs : AddRollback(r)
VerifyStartStep == Quiet /\ \E r \in Reqs : VerifyStart(r)
VerifyQueryStep == Quiet /\ \E r \in Reqs : VerifyQuery(r)
VerifyInsertStep == Quiet /\ \E r \in Reqs : VerifyInsert(r)
VerifyRespondStep == Quiet /\ \E r \in Reqs : VerifyRespond(r)
InitQueryStep == Quiet /\ \E r \in Reqs : InitQuery(r)
InitRoomExistsStep == Quiet /\ \E r \in Reqs : InitRoomExists(r)
InitRoomInsertStep == Quiet /\ \E r \in Reqs : InitRoomInsert(r)
InitSectionsExistStep == Quiet /\ \E r \in Reqs : InitSectionsExist(r)
InitSectionsInsertStep == Quiet /\ \E r \in Reqs : InitSectionsInsert(r)
ForgetStep == \E r \in Reqs : Forget(r)
IdleTimeoutStep == Quiet /\ \E c \in Clients : IdleTimeout(c)

Next ==
    \/ StartAdd \/ StartVerify \/ StartInit
    \/ AddConnectStep \/ AddBeginStep \/ AddCheckTagStep \/ AddCheckIdStep
    \/ AddGetSectionStep \/ AddInsertSectionStep \/ AddInsertPersonStep
    \/ AddInsertLinkStep \/ AddCommitStep \/ AddRollbackStep
    \/ VerifyStartStep \/ VerifyQueryStep \/ VerifyInsertStep \/ VerifyRespondStep
    \/ InitQueryStep \/ InitRoomExistsStep \/ InitRoomInsertStep
    \/ InitSectionsExistStep \/ InitSectionsInsertStep
    \/ IdleTimeoutStep \/ ForgetStep

Spec == Init /\ [][Next]_vars

AddConnectFailStep == Quiet /\ \E r \in Reqs : AddConnectFail(r)
AddQueryFailStep == Quiet /\ \E r \in Reqs : AddQueryFail(r)
AddRollbackFailStep == Quiet /\ \E r \in Reqs : AddRollbackFail(r)
VerifyQueryFailStep == Quiet /\ \E r \in Reqs : VerifyQueryFail(r)
VerifyInsertFailStep == Quiet /\ \E r \in Reqs : VerifyInsertFail(r)
InitQueryFailStep == Quiet /\ \E r \in Reqs : InitQueryFail(r)

NextF ==
    \/ Next
    \/ AddConnectFailStep \/ AddQueryFailStep \/ AddRollbackFailStep
    \/ VerifyQueryFailStep \/ VerifyInsertFailStep \/ InitQueryFailStep

SpecF == Init /\ [][NextF]_vars

\* -------------------------------------------------------------- properties
Count(seq, t) == Cardinality({ i \in 1..Len(seq) : seq[i] = t })

VerifySucceeded(r) == req[r].kind = "verify" /\ req[r].pc = "done" /\ req[r].status = 200

\* C1 as stated: in every successful verify-attendance response the number of
\* verified_students plus the number of unrecognized tags equals total_scans.
C1_SumEqualsTotal ==
    \A r \in Reqs : VerifySucceeded(r) =>
        Len(req[r].verifiedStudents) + Len(req[r].unrecognizedTags) = req[r].total_scans

\* C1 amended: total_scans is the length of the input; verified_students has
\* one entry per distinct input token that is an enrolled student's tag;
\* unrecognized holds every other input token as often as the input does; so
\* each token is in exactly one list, and the two lengths add up to
\* total_scans less the repeats of enrolled tokens.
C1_Partition ==
    \A r \in Reqs : VerifySucceeded(r) =>
        LET tags == req[r].body.rfid_tags.items
            v == req[r].verifiedStudents
            u == req[r].unrecognizedTags
            found == { v[i].rfid_tag : i \in 1..Len(v) } IN
        /\ req[r].total_scans = Len(tags)
        /\ \A i, j \in 1..Len(v) : v[i].rfid_tag = v[j].rfid_tag => i = j
        /\ found \subseteq Range(tags)
        /\ \A t \in Range(tags) \cup Range(u) :
              Count(u, t) = IF t \in found THEN 0 ELSE Count(tags, t)
        /\ Len(v) + Len(u) =
              Len(tags) - Cardinality({ i \in 1..Len(tags) : tags[i] \in found }) + Cardinality(found)

\* a successful response to a batch that repeats an enrolled tag
C1_Witness ==
    \E r \in Reqs : /\ VerifySucceeded(r)
                    /\ req[r].body.rfid_tags.items = <<"T1", "T1">>
                    /\ Len(req[r].verifiedStudents) = 1
                    /\ req[r].unrecognizedTags = << >>

\* C2 as stated: a well-formed add-student whose rfid_tag (or else whose
\* id_number) was already committed when it arrived changes no table and is
\* answered 400 with the duplicate-tag (duplicate-identifier) error.
C2_Step ==
    \A r \in Reqs :
        ( /\ req[r].kind = "add" /\ ~Missing(req[r].body)
          /\ req[r].dupTag \/ req[r].dupId
          /\ req[r].pc \notin {"done", "crashed"}
          /\ req'[r] # req[r] )
        => /\ db' = db
           /\ req'[r].pc = "done" =>
                /\ req'[r].status = 400
                /\ req'[r].error = IF req[r].dupTag THEN ErrTagExists ELSE ErrIdExists

C4_Atomic ==
    /\ \A p \in db.persons :
          /\ Cardinality({ l \in db.student_sections : l.person_id = p.person_id }) = 1
          /\ \A l \in db.student_sections :
                l.person_id = p.person_id => \E x \in db.sections : x.section_id = l.section_id
    /\ \A l \in db.student_sections : \E p \in db.persons : p.person_id = l.person_id

\* an add-student that failed after it had inserted its person, beside a
\* committed person
C4_Witness ==
    \E r \in Reqs : /\ req[r].kind = "add" /\ req[r].pc = "done" /\ req[r].status = 500
                    /\ req[r].personId # 0
                    /\ db.persons # {}
                    /\ \A p \in db.persons : p.person_id # req[r].personId

\* C5: section names are unique among the committed sections, and the COMMIT
\* of a successful add-student leaves exactly one section with the request's
\* name, to which the new person's one link points: the section that was
\* there before when there was one (and then the request inserted none), and
\* otherwise a single new row.
C5_Step ==
    \A r \in Reqs :
        ( req[r].kind = "add" /\ req[r].pc = "commit" /\ req'[r].pc = "done" /\ req'[r].status = 200 )
        => LET before == SectionResult(db.sections, req[r].body.section)
               after == SectionResult(db'.sections, req[r].body.section)
               links == { l \in db'.student_sections : l.person_id = req[r].personId } IN
           /\ Cardinality(after) = 1
           /\ before # {} => after = before /\ req[r].newSection = 0
           /\ before = {} => Cardinality(after \ db.sections) = 1
           /\ req[r].newSection # 0 => \A x \in after : x.section_id = req[r].newSection
           /\ Cardinality(links) = 1
           /\ \A l \in links : \E x \in after : x.section_id = l.section_id

C5_UniqueNames ==
    \A x, y \in db.sections : x.section_name = y.section_name => x = y

C5_GetOrCreate == []C5_UniqueNames /\ [][C5_Step]_vars

\* a successful add-student that linked to the section an earlier add-student created
C5_Witness ==
    \E r \in Reqs : /\ req[r].kind = "add" /\ req[r].pc = "done" /\ req[r].status = 200
                    /\ req[r].body.section = "X1" /\ req[r].newSection = 0
                    /\ \E x \in db.sections : x.section_name = "X1" /\ x.section_id = req[r].sectionId

\* C6 as stated: a request answered with the missing-fields or the invalid-array
\* error has not asked the pool for a connection or a query.
C6_NoStorageBeforeReject ==
    \A r \in Reqs :
        (req[r].pc = "done" /\ req[r].error \in {ErrMissing, ErrInvalidTags}) => ~req[r].touched

\* every attendance row there is, committed or not
AllAttendance == db.attendance \cup UNION { client[c].w.attendance : c \in Clients }

\* C7: one verify-attendance call gets at most one row per person from its
\* query and inserts at most one attendance row per person.
C7_OnePerPerson ==
    /\ \A r \in Reqs : \A i, j \in 1..Len(req[r].verifiedStudents) :
          req[r].verifiedStudents[i].person_id = req[r].verifiedStudents[j].person_id => i = j
    /\ \A a, b \in AllAttendance :
          (a.req = b.req /\ a.person_id = b.person_id) => a = b

\* a successful call whose batch repeats an enrolled tag, with its row committed
C7_Witness ==
    \E r \in Reqs : /\ VerifySucceeded(r)
                    /\ req[r].body.rfid_tags.items = <<"T1", "T1">>
                    /\ \E a \in db.attendance : a.req = req[r].id

\* GET /api/attendance run on connection c: the attendance rows it sees
\* (JOIN persons), as every later query on any connection must see them
AttendanceQuery(c) ==
    { a \in Visible(c).attendance : \E p \in Visible(c).persons : p.person_id = a.person_id }

\* C8 as stated: when verify-attendance answers success, every verified student
\* has a committed attendance row of this call at the requested classroom,
\* which a query on any connection returns.
C8_Logged ==
    \A r \in Reqs : VerifySucceeded(r) =>
        \A i \in 1..Len(req[r].verifiedStudents) :
            \E a \in db.attendance :
                /\ a.req = req[r].id
                /\ a.person_id = req[r].verifiedStudents[i].person_id
                /\ a.classroom_id = ClassroomId(req[r].body)
                /\ \A c \in Clients : a \in AttendanceQuery(c)

\* C9 as stated: a request whose handler has ended has been answered, with
\* success or with an error string.
C9_Answered ==
    \A r \in Reqs : req[r].pc \in {"done", "crashed"} =>
        \/ req[r].status = 200 /\ req[r].error = ""
        \/ req[r].status \in {400, 500} /\ req[r].error # ""

\* C10 as stated: a connection in the pool carries no open transaction.
C10_NoOpenTransaction ==
    \A c \in Clients : Idle(c) => client[c].tx = "none"

====
